---- MODULE Spec2Model ----
(***************************************************************************)
(* Model of the Research Agent page (src/bot.py, src/news.py): the script  *)
(* run that follows a press of "Start Research".                           *)
(*                                                                         *)
(* A Python str is a sequence of one-character strings, so that split,     *)
(* strip, join and the f-string templates are computed on characters.  A   *)
(* literal piece of a template (and the failure placeholder) is a single   *)
(* element holding the literal's text; its emoji are written as :name:     *)
(* and a character past U+007F as the element "U+hhhh" of its code point,  *)
(* because the module is ASCII.  The providers (the search agent, the      *)
(* content agent, the news API) are the environment: each call draws its   *)
(* answer from a set handed to the action.                                 *)
(*                                                                         *)
(* The st.button calls nested in the tabs (lines 221, 244, 259) return     *)
(* False in the script run in which "Start Research" returns True, so the  *)
(* assignments they guard never run in a run that renders the tabs.        *)
(***************************************************************************)
EXTENDS Naturals, Sequences, FiniteSets

VARIABLES
    keywords_input,   \* the text area's value (line 163)
    max_results,      \* the slider's value (line 164)
    pc,               \* position of the script run
    keywords,         \* line 168
    idx,              \* index of the loop the run is in (keyword or idea block)
    run_content,      \* run.content of the last search (line 50)
    ddg_results,      \* line 179
    ddg_returns,      \* history: each search's answer and what the call returned
    search_results,   \* line 175, 180
    gen_run,          \* the content agent's answer (line 109)
    g_linkedin,       \* generate_content_ideas' local linkedin_posts (line 113)
    g_facebook,       \* generate_content_ideas' local facebook_posts (line 114)
    gen_failed,       \* history: the except clause of line 138 ran
    content_ideas,    \* line 206
    linkedin_posts,   \* line 206
    facebook_posts,   \* line 206
    instagram_posts,  \* the Instagram posts rendered by line 238
    articles,         \* fetch_news_articles' local list (line 143)
    news_responses,   \* history: the answers of requests.get (news.py line 18)
    news_articles,    \* line 267
    calls,            \* history: the provider and component calls, in order
    errors,           \* the st.error messages shown
    exception         \* the exception that ended the script run, or "none"

vars == <<keywords_input, max_results, pc, keywords, idx, run_content,
          ddg_results, ddg_returns, search_results, gen_run, g_linkedin,
          g_facebook, gen_failed, content_ideas, linkedin_posts,
          facebook_posts, instagram_posts, articles, news_responses,
          news_articles, calls, errors, exception>>

(***************************************************************************)
(* Bounds of the model.                                                    *)
(***************************************************************************)
MaxInputLen == 3      \* characters of the text area, specification Spec
MaxKeywords == 3      \* keywords, specifications SpecSearchLoop and SpecNews
MaxSlider == 2        \* slider positions explored, out of 1..SliderMax
MaxEntries == 3       \* entries of a search answer, Spec and SpecSearchLoop
MaxItems == 1         \* entries of a search answer, SpecSearch
MaxLines == 7         \* lines of a generated text, SpecGen
MaxArticles == 2      \* articles of one news answer

SliderMin == 1
SliderMax == 10

Min(a, b) == IF a <= b THEN a ELSE b

(***************************************************************************)
(* Python's str and list operations.                                       *)
(***************************************************************************)
NL == "\n"
\* The characters str.strip() removes: those str.isspace() accepts.  An ASCII
\* character is the one-character string holding it.  A character past
\* U+007F is the element "U+hhhh" naming its code point, because a module is
\* ASCII text.
AsciiWhitespace ==
    {" ", "\t", "\n", "\r", "\f", "", "", "", "", ""}

UnicodeWhitespace ==
    {"U+0085", "U+00A0", "U+1680", "U+2000", "U+2001", "U+2002", "U+2003",
     "U+2004", "U+2005", "U+2006", "U+2007", "U+2008", "U+2009", "U+200A",
     "U+2028", "U+2029", "U+202F", "U+205F", "U+3000"}

Whitespace == AsciiWhitespace \cup UnicodeWhitespace

HasAt(s, i, sep) ==
    /\ i + Len(sep) - 1 <= Len(s)
    /\ SubSeq(s, i, i + Len(sep) - 1) = sep

RECURSIVE SplitFrom(_, _, _, _)
SplitFrom(s, sep, i, cur) ==
    IF i > Len(s) THEN <<cur>>
    ELSE IF HasAt(s, i, sep)
         THEN <<cur>> \o SplitFrom(s, sep, i + Len(sep), <<>>)
         ELSE SplitFrom(s, sep, i + 1, Append(cur, s[i]))

\* s.split(sep), sep not empty
split(s, sep) == SplitFrom(s, sep, 1, <<>>)

RECURSIVE lstrip(_)
lstrip(s) ==
    IF s # <<>> /\ Head(s) \in Whitespace THEN lstrip(Tail(s)) ELSE s

RECURSIVE rstrip(_)
rstrip(s) ==
    IF s # <<>> /\ s[Len(s)] \in Whitespace
    THEN rstrip(SubSeq(s, 1, Len(s) - 1))
    ELSE s

\* s.strip()
strip(s) == rstrip(lstrip(s))

RECURSIVE join(_, _)
\* sep.join(parts)
join(sep, parts) ==
    IF parts = <<>> THEN <<>>
    ELSE IF Len(parts) = 1 THEN parts[1]
    ELSE parts[1] \o sep \o join(sep, Tail(parts))

\* l[lo:hi] for 0 <= lo <= hi
slice(l, lo, hi) == SubSeq(l, lo + 1, Min(hi, Len(l)))

(***************************************************************************)
(* search_with_agent (lines 48-85).  A field of a provider entry is        *)
(* absent, null (None) or a string; an entry is a mapping or not.          *)
(***************************************************************************)
Str(s) == [t |-> "str", v |-> s]
Null == [t |-> "null", v |-> <<>>]
Absent == [t |-> "absent", v |-> <<>>]

\* item.get(key, default)
get(item, key, default) ==
    IF item[key].t = "absent" THEN default ELSE item[key]

SearchResultLabel == <<"Search Result">>
NoTitle == <<"No title">>

\* mutant: the string branch falls back to the comprehension's default title
string_result_no_title(content) ==
    <<[title |-> Str(NoTitle), link |-> Str(<<>>), snippet |-> Str(content)]>>

\* lines 54-58
string_result(content) ==
    <<[title |-> Str(SearchResultLabel), link |-> Str(<<>>),
       snippet |-> Str(content)]>>

\* lines 62-66 and 70-74: one element of the list comprehension
normalize_item(item) ==
    [title |-> get(item, "title", Str(NoTitle)),
     link |-> get(item, "link", Str(<<>>)),
     snippet |-> get(item, "snippet", Str(<<>>))]

\* lines 62-66 and 70-74: item.get raises on an item that is no mapping
normalize_items(items) ==
    IF \E j \in 1..Len(items) : ~items[j].mapping
    THEN [raised |-> TRUE, results |-> <<>>]
    ELSE [raised |-> FALSE,
          results |-> [j \in 1..Len(items) |-> normalize_item(items[j])]]

\* lines 48-85; resp is what agent.run does: raise, or a run.content
search_with_agent(resp) ==
    IF resp.kind = "raise" THEN [raised |-> TRUE, results |-> <<>>]
    ELSE IF resp.kind = "str"
         THEN [raised |-> FALSE, results |-> string_result(resp.content)]
    ELSE IF resp.kind \in {"dict", "list"} THEN normalize_items(resp.items)
    ELSE [raised |-> FALSE, results |-> string_result(resp.content)]

\* mutant: the slice of line 180 is dropped
truncate_nothing(results, limit) == results

\* line 180: ddg_results[:max_results]
truncate(results, limit) == slice(results, 0, limit)

(***************************************************************************)
(* generate_content_ideas (lines 87-140) and the Instagram pass            *)
(* (lines 229-238).                                                        *)
(***************************************************************************)
Placeholder == <<"Failed to generate content ideas.">>

\* line 115 and line 229
idea_blocks(text) == split(text, <<NL, NL>>)

\* line 116 and line 230
idea_lines(idea) == split(idea, <<NL>>)

\* mutant: every remaining line is taken as a key point
key_points_unbounded(lines) == join(<<NL>>, slice(lines, 2, Len(lines)))

\* line 121
key_points(lines) == join(<<NL>>, slice(lines, 2, 5))

\* mutant: the Instagram pass takes one key point fewer
instagram_key_points_short(lines) == join(<<NL>>, slice(lines, 2, 4))

\* line 233
instagram_key_points(lines) == join(<<NL>>, slice(lines, 2, 5))

LiOpen == <<":rocket: *">>
LiMid == <<"* - Grab attention with this hook!\n\n:mag: Let's dive deeper into this topic!\n\n">>
LiPoints == <<"\n\n*Key Points to Cover:*\n">>
LiClose == <<"\n\nThis is where you expand on the idea and provide valuable insights.\n\n:point_right: What are your thoughts? Share in the comments!\n\n#ContentIdeas #LinkedIn #Engagement">>

\* lines 124-130
linkedin_post(title, description, points) ==
    LiOpen \o title \o LiMid \o description \o LiPoints \o points \o LiClose

FbOpen == <<":star2: *">>
FbMid == <<"*\n\n">>
FbPoints == <<"\n\n*Key Points:*\n">>
FbClose == <<"\n\n:speech_balloon: We want to hear from you! What do you think about this topic? Share your thoughts in the comments below!\n\n#Facebook #Community #Engagement">>

\* line 134
facebook_post(title, description, points) ==
    FbOpen \o title \o FbMid \o description \o FbPoints \o points \o FbClose

IgOpen == <<":sparkles: *">>
IgMid == <<"*\n\n">>
IgPoints == <<"\n\n*Key Highlights:*\n">>
IgClose == <<"\n\n:camera_with_flash: Don't forget to tag us in your posts! #Instagram #ContentIdeas #Inspiration">>

\* line 236
instagram_post(title, description, points) ==
    IgOpen \o title \o IgMid \o description \o IgPoints \o points \o IgClose

\* mutant: the except clause hands back the lists built so far
generation_failed_partial ==
    [content_ideas |-> Placeholder, linkedin_posts |-> g_linkedin,
     facebook_posts |-> g_facebook]

\* lines 138-140: what the except clause returns
generation_failed ==
    [content_ideas |-> Placeholder, linkedin_posts |-> <<>>,
     facebook_posts |-> <<>>]

(***************************************************************************)
(* fetch_trending_articles (news.py lines 5-25) for one keyword.           *)
(***************************************************************************)
StatusOK == 200

\* the articles the provider lists for a keyword
ArticlesFor(keyword, n) == [k \in 1..n |-> [q |-> keyword, n |-> k]]

\* mutant: the status check of news.py line 19 is dropped
articles_of_any_status(keyword, resp) ==
    IF resp.has_articles THEN ArticlesFor(keyword, resp.n) ELSE <<>>

\* news.py lines 19-23: what one answer adds to the list
articles_of(keyword, resp) ==
    IF resp.status = StatusOK
    THEN IF resp.has_articles THEN ArticlesFor(keyword, resp.n) ELSE <<>>
    ELSE <<>>

(***************************************************************************)
(* The answers the providers can give.                                     *)
(***************************************************************************)
NoResponse == [kind |-> "none", content |-> <<>>, items |-> <<>>]
RaiseResp == [kind |-> "raise", content |-> <<>>, items |-> <<>>]
StrResp(s) == [kind |-> "str", content |-> s, items |-> <<>>]
DictResp(items) == [kind |-> "dict", content |-> <<>>, items |-> items]
ListResp(items) == [kind |-> "list", content |-> <<>>, items |-> items]
\* neither str, nor dict with 'results', nor list; s is str(run.content)
OtherResp(s) == [kind |-> "other", content |-> s, items |-> <<>>]

BadItem ==
    [mapping |-> FALSE, title |-> Absent, link |-> Absent, snippet |-> Absent]

EntryNames == <<"p", "q", "r", "s", "u", "v">>
Entry(k) ==
    [mapping |-> TRUE, title |-> Str(<<EntryNames[k]>>),
     link |-> Str(<<"h", EntryNames[k]>>), snippet |-> Str(<<EntryNames[k], " ">>)]
FirstEntries(n) == [k \in 1..n |-> Entry(k)]

\* Spec: one failing, one string-shaped and one list-shaped answer
RunSearchResponses ==
    {RaiseResp, StrResp(<<"s">>), ListResp(FirstEntries(MaxEntries))}

\* SpecSearchLoop: answers of every length up to MaxEntries, and failures
LoopSearchResponses ==
    {RaiseResp, StrResp(<<"s">>), ListResp(<<Entry(1), BadItem>>),
     DictResp(FirstEntries(MaxEntries))}
    \cup {ListResp(FirstEntries(n)) : n \in 0..MaxEntries}

FieldValues == {Absent, Null, Str(<<"x">>)}
Items ==
    [mapping : {TRUE}, title : FieldValues, link : FieldValues,
     snippet : FieldValues] \cup {BadItem}
ItemLists == UNION {[1..n -> Items] : n \in 0..MaxItems}

\* SpecSearch: every shape, with entries whose fields are absent or null
RichSearchResponses ==
    {RaiseResp, OtherResp(<<"None">>)}
    \cup {StrResp(s) : s \in {<<>>, <<"s">>, <<"s", NL, NL, "s">>}}
    \cup {DictResp(l) : l \in ItemLists}
    \cup {ListResp(l) : l \in ItemLists}

NoGen == [kind |-> "none", text |-> <<>>]
GenRaise == [kind |-> "raise", text |-> <<>>]
\* run.content is no str (None, a dict): .split raises
GenNonStr == [kind |-> "nonstr", text |-> <<>>]
GenText(t) == [kind |-> "str", text |-> t]

OneIdea == <<"a", NL, "b">>
TwoIdeas == <<"a", NL, "b", NL, NL, "b", NL, "a", NL, "a">>
ShortIdea == <<"a", NL, "b", NL, NL, "a">>

RunGenResponses ==
    {GenRaise, GenNonStr, GenText(OneIdea), GenText(TwoIdeas),
     GenText(ShortIdea)}

LineSet == {<<>>, <<"a">>, <<"b">>}
Texts ==
    {join(<<NL>>, ls) : ls \in UNION {[1..n -> LineSet] : n \in 1..MaxLines}}

\* SpecGen: every text of at most MaxLines lines
RichGenResponses == {GenRaise, GenNonStr} \cup {GenText(t) : t \in Texts}

NewsRaise == [kind |-> "raise", status |-> 0, has_articles |-> FALSE, n |-> 0]
NewsAnswer(status, has, n) ==
    [kind |-> "http", status |-> status, has_articles |-> has, n |-> n]

RunNewsResponses ==
    {NewsRaise, NewsAnswer(429, FALSE, 0), NewsAnswer(StatusOK, TRUE, MaxArticles)}

\* the one answer of the stages a specification holds fixed
RaiseOnly == {RaiseResp}
OneIdeaOnly == {GenText(OneIdea)}
OneArticleOnly == {NewsAnswer(StatusOK, TRUE, 1)}

\* SpecNews: 200 with 0..MaxArticles articles or without the key, 429, 500
RichNewsResponses ==
    {NewsRaise, NewsAnswer(StatusOK, FALSE, 0), NewsAnswer(429, FALSE, 0),
     NewsAnswer(429, TRUE, MaxArticles), NewsAnswer(500, FALSE, 0)}
    \cup {NewsAnswer(StatusOK, TRUE, n) : n \in 0..MaxArticles}

\* two letters, and three of the characters strip removes: a space, a form
\* feed, and the line feed that also separates the keywords
InputAlphabet == {"a", "b", " ", "\f", NL}
InputTexts == UNION {[1..n -> InputAlphabet] : n \in 0..MaxInputLen}

KeywordNames == <<"a", "b", "c", "d", "e">>
KeywordList(n) == [k \in 1..n |-> <<KeywordNames[k]>>]
KeywordInputs == {join(<<NL>>, KeywordList(n)) : n \in 1..MaxKeywords}
OneKeywordInput == {<<"a">>}

(***************************************************************************)
(* The script run.                                                         *)
(***************************************************************************)
Call(op, arg) == [op |-> op, arg |-> arg]

\* line 168
parse_keywords(text) ==
    LET parts == split(text, <<NL>>)
        stripped == [j \in 1..Len(parts) |-> strip(parts[j])]
    IN  SelectSeq(stripped, LAMBDA k : k # <<>>)

InitWith(inputs) ==
    /\ keywords_input \in inputs
    /\ max_results \in SliderMin..Min(SliderMax, MaxSlider)
    /\ pc = "button"
    /\ keywords = <<>>
    /\ idx = 0
    /\ run_content = NoResponse
    /\ ddg_results = <<>>
    /\ ddg_returns = <<>>
    /\ search_results = <<>>
    /\ gen_run = NoGen
    /\ g_linkedin = <<>>
    /\ g_facebook = <<>>
    /\ gen_failed = FALSE
    /\ content_ideas = <<>>
    /\ linkedin_posts = <<>>
    /\ facebook_posts = <<>>
    /\ instagram_posts = <<>>
    /\ articles = <<>>
    /\ news_responses = <<>>
    /\ news_articles = <<>>
    /\ calls = <<>>
    /\ errors = <<>>
    /\ exception = "none"

\* lines 166-175 and 288-289
StartResearch ==
    /\ pc = "button"
    /\ IF keywords_input # <<>>
       THEN /\ keywords' = parse_keywords(keywords_input)
            /\ idx' = 1
            /\ pc' = "search"
            /\ UNCHANGED errors
       ELSE /\ errors' = Append(errors, "Please enter at least one keyword")
            /\ pc' = "done"
            /\ UNCHANGED <<keywords, idx>>
    /\ UNCHANGED <<keywords_input, max_results, run_content, ddg_results,
                   ddg_returns, search_results, gen_run, g_linkedin,
                   g_facebook, gen_failed, content_ideas, linkedin_posts,
                   facebook_posts, instagram_posts, articles, news_responses,
                   news_articles, calls, exception>>

\* lines 176-182, one keyword
SearchKeyword(responses) ==
    /\ pc = "search"
    /\ idx <= Len(keywords)
    /\ \E resp \in responses :
         LET ret == search_with_agent(resp)
         IN  /\ run_content' = resp
             /\ ddg_results' = ret.results
             /\ ddg_returns' = Append(ddg_returns,
                    [answer |-> resp, raised |-> ret.raised,
                     results |-> ret.results])
             /\ search_results' =
                    search_results \o truncate(ret.results, max_results)
             /\ errors' = IF ret.raised THEN Append(errors, "Search failed")
                          ELSE errors
    /\ calls' = Append(calls, Call("search", <<keywords[idx]>>))
    /\ idx' = idx + 1
    /\ UNCHANGED <<keywords_input, max_results, pc, keywords, gen_run,
                   g_linkedin, g_facebook, gen_failed, content_ideas,
                   linkedin_posts, facebook_posts, instagram_posts, articles,
                   news_responses, news_articles, exception>>

\* lines 184-202
ShowSearchResults ==
    /\ pc = "search"
    /\ idx > Len(keywords)
    /\ pc' = "ideas"
    /\ UNCHANGED <<keywords_input, max_results, keywords, idx, run_content,
                   ddg_results, ddg_returns, search_results, gen_run,
                   g_linkedin, g_facebook, gen_failed, content_ideas,
                   linkedin_posts, facebook_posts, instagram_posts, articles,
                   news_responses, news_articles, calls, errors, exception>>

\* lines 138-140 and 206-207: the except clause, then the caller's assignment
GenerationFails ==
    /\ gen_failed' = TRUE
    /\ errors' = Append(errors, "Content generation failed")
    /\ content_ideas' = generation_failed.content_ideas
    /\ linkedin_posts' = generation_failed.linkedin_posts
    /\ facebook_posts' = generation_failed.facebook_posts
    /\ g_linkedin' = <<>>
    /\ g_facebook' = <<>>
    /\ pc' = "linkedin"

\* lines 206, 88-115: the call of the content agent
GenerateRun(responses) ==
    /\ pc = "ideas"
    /\ calls' = Append(calls, Call("generate", keywords))
    /\ \E resp \in responses :
         /\ gen_run' = resp
         /\ IF resp.kind = "str"
            THEN /\ g_linkedin' = <<>>
                 /\ g_facebook' = <<>>
                 /\ idx' = 1
                 /\ pc' = "ideas_loop"
                 /\ UNCHANGED <<gen_failed, errors, content_ideas,
                                linkedin_posts, facebook_posts>>
            ELSE /\ GenerationFails
                 /\ UNCHANGED idx
    /\ UNCHANGED <<keywords_input, max_results, keywords, run_content,
                   ddg_results, ddg_returns, search_results, instagram_posts,
                   articles, news_responses, news_articles, exception>>

\* lines 115-135, one idea
GenerateIdea ==
    /\ pc = "ideas_loop"
    /\ idx <= Len(idea_blocks(gen_run.text))
    /\ LET lines == idea_lines(idea_blocks(gen_run.text)[idx])
       IN  IF Len(lines) < 2
           THEN /\ GenerationFails
                /\ UNCHANGED idx
           ELSE /\ g_linkedin' = Append(g_linkedin,
                       linkedin_post(lines[1], lines[2], key_points(lines)))
                /\ g_facebook' = Append(g_facebook,
                       facebook_post(lines[1], lines[2], key_points(lines)))
                /\ idx' = idx + 1
                /\ UNCHANGED <<pc, gen_failed, errors, content_ideas,
                               linkedin_posts, facebook_posts>>
    /\ UNCHANGED <<keywords_input, max_results, keywords, run_content,
                   ddg_results, ddg_returns, search_results, gen_run,
                   instagram_posts, articles, news_responses, news_articles,
                   calls, exception>>

\* lines 137 and 206-207
GenerateReturn ==
    /\ pc = "ideas_loop"
    /\ idx > Len(idea_blocks(gen_run.text))
    /\ content_ideas' = gen_run.text
    /\ linkedin_posts' = g_linkedin
    /\ facebook_posts' = g_facebook
    /\ g_linkedin' = <<>>
    /\ g_facebook' = <<>>
    /\ pc' = "linkedin"
    /\ UNCHANGED <<keywords_input, max_results, keywords, idx, run_content,
                   ddg_results, ddg_returns, search_results, gen_run,
                   gen_failed, instagram_posts, articles, news_responses,
                   news_articles, calls, errors, exception>>

\* lines 210-225
LinkedInTab ==
    /\ pc = "linkedin"
    /\ pc' = "instagram"
    /\ idx' = 1
    /\ UNCHANGED <<keywords_input, max_results, keywords, run_content,
                   ddg_results, ddg_returns, search_results, gen_run,
                   g_linkedin, g_facebook, gen_failed, content_ideas,
                   linkedin_posts, facebook_posts, instagram_posts, articles,
                   news_responses, news_articles, calls, errors, exception>>

\* lines 229-245, one idea; the IndexError of line 232 is not caught
InstagramPost ==
    /\ pc = "instagram"
    /\ idx <= Len(idea_blocks(content_ideas))
    /\ LET lines == idea_lines(idea_blocks(content_ideas)[idx])
       IN  IF Len(lines) < 2
           THEN /\ pc' = "aborted"
                /\ exception' = "IndexError"
                /\ UNCHANGED <<idx, instagram_posts>>
           ELSE /\ instagram_posts' = Append(instagram_posts,
                       instagram_post(lines[1], lines[2],
                                      instagram_key_points(lines)))
                /\ idx' = idx + 1
                /\ UNCHANGED <<pc, exception>>
    /\ UNCHANGED <<keywords_input, max_results, keywords, run_content,
                   ddg_results, ddg_returns, search_results, gen_run,
                   g_linkedin, g_facebook, gen_failed, content_ideas,
                   linkedin_posts, facebook_posts, articles, news_responses,
                   news_articles, calls, errors>>

\* lines 248-263
FacebookTab ==
    /\ pc = "instagram"
    /\ idx > Len(idea_blocks(content_ideas))
    /\ pc' = "news_tab"
    /\ UNCHANGED <<keywords_input, max_results, keywords, idx, run_content,
                   ddg_results, ddg_returns, search_results, gen_run,
                   g_linkedin, g_facebook, gen_failed, content_ideas,
                   linkedin_posts, facebook_posts, instagram_posts, articles,
                   news_responses, news_articles, calls, errors, exception>>

\* lines 267 and 142-143: the call of fetch_news_articles
FetchNewsArticles ==
    /\ pc = "news_tab"
    /\ calls' = Append(calls, Call("fetch_news", keywords))
    /\ articles' = <<>>
    /\ idx' = 1
    /\ pc' = "news"
    /\ UNCHANGED <<keywords_input, max_results, keywords, run_content,
                   ddg_results, ddg_returns, search_results, gen_run,
                   g_linkedin, g_facebook, gen_failed, content_ideas,
                   linkedin_posts, facebook_posts, instagram_posts,
                   news_responses, news_articles, errors, exception>>

\* lines 144-145 and news.py 5-25, one keyword; an exception of requests.get
\* is caught nowhere
NewsRequest(responses) ==
    /\ pc = "news"
    /\ idx <= Len(keywords)
    /\ calls' = Append(calls, Call("news_get", <<strip(keywords[idx])>>))
    /\ \E resp \in responses :
         /\ news_responses' = Append(news_responses, resp)
         /\ IF resp.kind = "raise"
            THEN /\ pc' = "aborted"
                 /\ exception' = "RequestException"
                 /\ UNCHANGED <<idx, articles>>
            ELSE /\ articles' =
                        articles \o articles_of(strip(keywords[idx]), resp)
                 /\ idx' = idx + 1
                 /\ UNCHANGED <<pc, exception>>
    /\ UNCHANGED <<keywords_input, max_results, keywords, run_content,
                   ddg_results, ddg_returns, search_results, gen_run,
                   g_linkedin, g_facebook, gen_failed, content_ideas,
                   linkedin_posts, facebook_posts, instagram_posts,
                   news_articles, errors>>

\* lines 146 and 267-287
NewsTab ==
    /\ pc = "news"
    /\ idx > Len(keywords)
    /\ news_articles' = articles
    /\ pc' = "done"
    /\ UNCHANGED <<keywords_input, max_results, keywords, idx, run_content,
                   ddg_results, ddg_returns, search_results, gen_run,
                   g_linkedin, g_facebook, gen_failed, content_ideas,
                   linkedin_posts, facebook_posts, instagram_posts, articles,
                   news_responses, calls, errors, exception>>

Run(searches, generations, news) ==
    \/ StartResearch
    \/ SearchKeyword(searches)
    \/ ShowSearchResults
    \/ GenerateRun(generations)
    \/ GenerateIdea
    \/ GenerateReturn
    \/ LinkedInTab
    \/ InstagramPost
    \/ FacebookTab
    \/ FetchNewsArticles
    \/ NewsRequest(news)
    \/ NewsTab

\* the whole run, every provider failing or not
Init == InitWith(InputTexts)
Next == Run(RunSearchResponses, RunGenResponses, RunNewsResponses)
Spec == Init /\ [][Next]_vars

\* the search loop over up to MaxKeywords keywords
InitSearchLoop == InitWith(KeywordInputs)
NextSearchLoop == Run(LoopSearchResponses, OneIdeaOnly, OneArticleOnly)
SpecSearchLoop == InitSearchLoop /\ [][NextSearchLoop]_vars

\* search_with_agent on every shape of answer
InitSearch == InitWith(OneKeywordInput)
NextSearch == Run(RichSearchResponses, OneIdeaOnly, OneArticleOnly)
SpecSearch == InitSearch /\ [][NextSearch]_vars

\* generation and the three platforms on every generated text
InitGen == InitWith(OneKeywordInput)
NextGen == Run(RaiseOnly, RichGenResponses, OneArticleOnly)
SpecGen == InitGen /\ [][NextGen]_vars

\* fetch_news_articles over up to MaxKeywords keywords
InitNews == InitWith(KeywordInputs)
NextNews == Run(RaiseOnly, OneIdeaOnly, RichNewsResponses)
SpecNews == InitNews /\ [][NextNews]_vars

(***************************************************************************)
(* Vocabulary of the properties.                                           *)
(***************************************************************************)
Terminal == {"done", "aborted"}
ProviderOps == {"search", "generate", "news_get"}
ComponentOps == {"search", "generate", "fetch_news"}
ProviderCalls == SelectSeq(calls, LAMBDA c : c.op \in ProviderOps)
ComponentCalls == SelectSeq(calls, LAMBDA c : c.op \in ComponentOps)
IsPrefix(s, t) == Len(s) <= Len(t) /\ \A j \in 1..Len(s) : s[j] = t[j]
FirstN(l, n) == [j \in 1..n |-> l[j]]
ResultFields == {"title", "link", "snippet"}

\* the calls of a run that is not cut short, in order
ExpectedCalls ==
    [k \in 1..Len(keywords) |-> Call("search", <<keywords[k]>>)]
    \o <<Call("generate", keywords), Call("fetch_news", keywords)>>

\* C1: when the keyword list is empty after trimming each line and dropping
\* the blank ones, the run makes no provider call (search, generation, news)
\* and ends having shown the validation error.
C1_EmptyInputNoWork ==
    parse_keywords(keywords_input) = <<>> =>
        /\ ProviderCalls = <<>>
        /\ pc \in Terminal =>
               \E j \in 1..Len(errors) :
                   errors[j] = "Please enter at least one keyword"

\* C2: with a non-empty keyword list no failure of a provider call ends the
\* run early: no exception leaves the script run.
C2_NeverAborts ==
    keywords # <<>> => pc # "aborted" /\ exception = "none"

\* C3: with a non-empty keyword list the components are called in the order
\* search per keyword, generator once, news aggregator once, and a run that
\* has ended has made all of these calls.
C3_StagesInOrder ==
    keywords # <<>> =>
        /\ IsPrefix(ComponentCalls, ExpectedCalls)
        /\ pc \in Terminal => ComponentCalls = ExpectedCalls

(***************************************************************************)
(* fetch_news_articles (C4), specification SpecNews.                       *)
(***************************************************************************)
\* the articles the k-th request returned to the aggregator's caller
ReturnedArticles(k) ==
    LET r == news_responses[k]
    IN  IF r.kind = "http" /\ r.status = 200 /\ r.has_articles
        THEN [m \in 1..r.n |-> [q |-> keywords[k], n |-> m]]
        ELSE <<>>

RECURSIVE NewsConcat(_)
\* the articles of the first k keywords, in keyword order
NewsConcat(k) ==
    IF k = 0 THEN <<>> ELSE NewsConcat(k - 1) \o ReturnedArticles(k)

RECURSIVE NewsCount(_)
NewsCount(k) ==
    IF k = 0 THEN 0 ELSE NewsCount(k - 1) + Len(ReturnedArticles(k))

\* C4: fetch_news_articles returns the concatenation, in keyword order, of
\* the articles returned for each keyword; its length is the sum of the
\* per-keyword counts; a keyword answered with a status other than 200 adds
\* nothing, leaves the other keywords' articles as they are, and does not
\* make the call raise.
C4_NewsConcatenation ==
    /\ pc = "news" /\ exception = "none" =>
           articles = NewsConcat(Len(news_responses))
    /\ pc = "done" =>
           /\ Len(news_responses) = Len(keywords)
           /\ news_articles = NewsConcat(Len(keywords))
           /\ Len(news_articles) = NewsCount(Len(keywords))
    /\ \A k \in 1..Len(news_responses) :
           news_responses[k].kind = "http" /\ news_responses[k].status # 200 =>
               /\ ReturnedArticles(k) = <<>>
               /\ ~(k = Len(news_responses) /\ exception = "RequestException")

\* three keywords, the middle one answered 429, the others with articles
C4_Witness ==
    /\ pc = "done"
    /\ Len(keywords) = 3
    /\ news_responses[2].status = 429
    /\ news_responses[2].has_articles
    /\ Len(ReturnedArticles(1)) >= 1
    /\ Len(ReturnedArticles(3)) >= 1
    /\ Len(news_articles) = Len(ReturnedArticles(1)) + Len(ReturnedArticles(3))

(***************************************************************************)
(* The search loop (C5), specification SpecSearchLoop.                     *)
(***************************************************************************)
RECURSIVE SearchConcat(_)
\* the first min(n_k, max_results) results of the first k searches
SearchConcat(k) ==
    IF k = 0 THEN <<>>
    ELSE SearchConcat(k - 1)
         \o FirstN(ddg_returns[k].results,
                   Min(Len(ddg_returns[k].results), max_results))

\* the answer of the provider makes search_with_agent fail
SearchFails(resp) ==
    \/ resp.kind = "raise"
    \/ /\ resp.kind \in {"dict", "list"}
       /\ \E j \in 1..Len(resp.items) : ~resp.items[j].mapping

\* C5: the combined search results are the concatenation, in keyword order,
\* of the first min(n_k, max_results) results search_with_agent returned for
\* each keyword; a failing search returns nothing, raises nothing, and the
\* remaining keywords are still searched.
C5_SearchConcatenation ==
    /\ search_results = SearchConcat(Len(ddg_returns))
    /\ pc \notin {"button", "search"} =>
           /\ Len(ddg_returns) = Len(keywords)
           /\ [k \in 1..Len(keywords) |-> Call("search", <<keywords[k]>>)]
                  = SelectSeq(calls, LAMBDA c : c.op = "search")
    /\ pc = "search" => exception = "none"
    /\ \A k \in 1..Len(ddg_returns) :
           SearchFails(ddg_returns[k].answer) =>
               ddg_returns[k].raised /\ ddg_returns[k].results = <<>>

\* three keywords: the first answer is cut to max_results, the second
\* search fails, the third still contributes
C5_Witness ==
    /\ pc = "ideas"
    /\ Len(keywords) = 3
    /\ Len(ddg_returns[1].results) > max_results
    /\ SearchFails(ddg_returns[2].answer)
    /\ Len(ddg_returns[3].results) >= 1
    /\ Len(search_results) = max_results + Min(Len(ddg_returns[3].results), max_results)

(***************************************************************************)
(* search_with_agent (C6, C7), specification SpecSearch.                   *)
(***************************************************************************)
\* C6: every record search_with_agent returns has the three fields and none
\* of them is null.
C6_NoNullField ==
    \A j \in 1..Len(ddg_results) :
        /\ DOMAIN ddg_results[j] = ResultFields
        /\ \A f \in ResultFields : ddg_results[j][f].t = "str"

\* C7 as stated: a plain string answer gives one result with empty title,
\* empty link and the whole string as snippet.
C7_StringEmptyTitle ==
    run_content.kind = "str" =>
        ddg_results = <<[title |-> Str(<<>>), link |-> Str(<<>>),
                         snippet |-> Str(run_content.content)]>>

\* C7 amended: a plain string answer gives one result whose title is the
\* fixed label 'Search Result', whose link is empty and whose snippet is the
\* whole string.
C7_StringLabelTitle ==
    run_content.kind = "str" =>
        /\ Len(ddg_results) = 1
        /\ ddg_results[1].title = [t |-> "str", v |-> <<"Search Result">>]
        /\ ddg_results[1].link = [t |-> "str", v |-> <<>>]
        /\ ddg_results[1].snippet = [t |-> "str", v |-> run_content.content]

\* a string answer of several lines has been normalized
C7_Witness ==
    /\ run_content.kind = "str"
    /\ Len(run_content.content) > 1
    /\ Len(ddg_results) = 1
    /\ pc = "ideas"

(***************************************************************************)
(* Generation and the three platforms (C8, C9, C10), specification         *)
(* SpecGen.                                                                *)
(***************************************************************************)
\* the generator has returned to the handler
Generated == pc \in {"linkedin", "instagram", "news_tab", "news", "done", "aborted"}

\* number of lines of a block: one more than its newlines
LineCount(block) == 1 + Cardinality({j \in 1..Len(block) : block[j] = NL})

\* a failure inside generate_content_ideas: the call raises, its content is
\* no string, or a block of the text has fewer than 2 lines
GenerationFailure ==
    \/ gen_run.kind \in {"raise", "nonstr"}
    \/ /\ gen_run.kind = "str"
       /\ \E b \in 1..Len(idea_blocks(gen_run.text)) :
              LineCount(idea_blocks(gen_run.text)[b]) < 2

\* C8: a failure inside generate_content_ideas is caught: the function
\* returns the placeholder string and two empty post lists, never partly
\* built lists, and raises nothing.
C8_FailureReturnsPlaceholder ==
    /\ pc \in {"ideas", "ideas_loop"} => exception = "none"
    /\ Generated /\ GenerationFailure =>
           /\ gen_failed
           /\ content_ideas = <<"Failed to generate content ideas.">>
           /\ linkedin_posts = <<>>
           /\ facebook_posts = <<>>
    /\ Generated /\ ~GenerationFailure =>
           ~gen_failed /\ content_ideas = gen_run.text

\* the failure came after the posts of a first block had been built
C8_Witness ==
    /\ pc = "linkedin"
    /\ gen_failed
    /\ gen_run.kind = "str"
    /\ Len(idea_blocks(gen_run.text)) >= 2
    /\ LineCount(idea_blocks(gen_run.text)[1]) >= 3
    /\ LineCount(idea_blocks(gen_run.text)[2]) < 2

\* position of a template literal in a post
Pos(post, literal) == CHOOSE j \in 1..Len(post) : post[j] = literal[1]

\* what stands in the three slots of a post built on the given literals
PostFields(post, open, mid, points, close) ==
    [opened |-> post[1] = open[1] /\ post[Len(post)] = close[1],
     title |-> SubSeq(post, 2, Pos(post, mid) - 1),
     description |-> SubSeq(post, Pos(post, mid) + 1, Pos(post, points) - 1),
     points |-> SubSeq(post, Pos(post, points) + 1, Len(post) - 1)]

LinkedInFields(post) == PostFields(post, LiOpen, LiMid, LiPoints, LiClose)
FacebookFields(post) == PostFields(post, FbOpen, FbMid, FbPoints, FbClose)
InstagramFields(post) == PostFields(post, IgOpen, IgMid, IgPoints, IgClose)

\* the positional reading of a block of at least 2 lines
BlockFields(block) ==
    LET lines == split(block, <<NL>>)
        last == IF Len(lines) < 5 THEN Len(lines) ELSE 5
    IN  [opened |-> TRUE,
         title |-> lines[1],
         description |-> lines[2],
         points |-> join(<<NL>>, [j \in 1..(last - 2) |-> lines[j + 2]])]

\* C9: a block of at least 2 lines is read positionally (line 1 the title,
\* line 2 the description, lines 3 to 5 the key points) and the LinkedIn,
\* Facebook and Instagram posts derived from it hold that title, that
\* description and exactly those key points, no later line.
C9_PositionalPosts ==
    /\ \A j \in 1..Len(g_linkedin) :
           LinkedInFields(g_linkedin[j]) =
               BlockFields(idea_blocks(gen_run.text)[j])
    /\ \A j \in 1..Len(g_facebook) :
           FacebookFields(g_facebook[j]) =
               BlockFields(idea_blocks(gen_run.text)[j])
    /\ \A j \in 1..Len(linkedin_posts) :
           LinkedInFields(linkedin_posts[j]) =
               BlockFields(idea_blocks(gen_run.text)[j])
    /\ \A j \in 1..Len(facebook_posts) :
           FacebookFields(facebook_posts[j]) =
               BlockFields(idea_blocks(gen_run.text)[j])
    /\ \A j \in 1..Len(instagram_posts) :
           InstagramFields(instagram_posts[j]) =
               BlockFields(idea_blocks(content_ideas)[j])
    /\ pc = "ideas_loop" =>
           Len(g_linkedin) = idx - 1 /\ Len(g_facebook) = idx - 1

\* a block of six lines, the sixth not empty, has its three posts
C9_Witness ==
    /\ pc = "done"
    /\ LineCount(idea_blocks(content_ideas)[1]) >= 6
    /\ split(idea_blocks(content_ideas)[1], <<NL>>)[6] # <<>>
    /\ Len(linkedin_posts) >= 1
    /\ Len(facebook_posts) >= 1
    /\ Len(instagram_posts) >= 1

\* C10: in a run that reaches its end the LinkedIn, Facebook and Instagram
\* posts are as many as the blank-line-separated blocks of the text shown
\* in the Content Ideas view, and the i-th post of each platform is built
\* from the same block.
C10_PlatformsAgree ==
    pc = "done" =>
        /\ Len(linkedin_posts) = Len(idea_blocks(content_ideas))
        /\ Len(facebook_posts) = Len(idea_blocks(content_ideas))
        /\ Len(instagram_posts) = Len(idea_blocks(content_ideas))
        /\ \A j \in 1..Len(idea_blocks(content_ideas)) :
               /\ LinkedInFields(linkedin_posts[j]) =
                      FacebookFields(facebook_posts[j])
               /\ LinkedInFields(linkedin_posts[j]) =
                      InstagramFields(instagram_posts[j])
               /\ InstagramFields(instagram_posts[j]).title =
                      split(idea_blocks(content_ideas)[j], <<NL>>)[1]

\* a finished run with two blocks, one of them with more than five lines
C10_Witness ==
    /\ pc = "done"
    /\ Len(idea_blocks(content_ideas)) >= 2
    /\ Len(instagram_posts) >= 2
    /\ \E j \in 1..Len(idea_blocks(content_ideas)) :
           LineCount(idea_blocks(content_ideas)[j]) >= 4

====
